---- MODULE Spec2Model ----
(***************************************************************************)
(* A model of ellipse.py: the superellipse sampler (lines 6-18), the noise *)
(* field (lines 20-23), the b >= a assertion (line 26) and the noise       *)
(* displacement (lines 29-37), one action per statement of the script.     *)
(*                                                                         *)
(* Floating-point values are fixed-point: the integer v stands for the     *)
(* real v / SCALE, every operation rounds to the nearest representable     *)
(* value, and NaN and the infinities are kept as IEEE 754 keeps them.      *)
(* numpy arrays are objects on a heap, and a Python name holds a           *)
(* reference (0: the name is not bound yet).                               *)
(***************************************************************************)
EXTENDS Integers, Sequences, FiniteSets, TLC

VARIABLES a, b, p, N, seed, nanCast,
          pc, err, t, c, s, heap, x, y, idealx, idealy, noise,
          X, Y, d, direction, noise_component, todo

params == <<a, b, p, N, seed, nanCast>>
vars == <<a, b, p, N, seed, nanCast, pc, err, t, c, s, heap, x, y, idealx,
          idealy, noise, X, Y, d, direction, noise_component, todo>>

----------------------------------------------------------------------------
(* Bounds and units of the model.                                          *)

\* One unit of the fixed-point representation is 1 / SCALE.
SCALE == 100
\* The side of the noise field (512 in the script, small here).
R == 8
\* The external noise generator returns one of the fields 0 .. MaxSeed.
MaxSeed == 2

\* a, b (line 7, 8): 0.2, 1.0, 2.0 and 1.0, 1.5.
ASet == {SCALE \div 5, SCALE, 2 * SCALE}
BSet == {SCALE, (3 * SCALE) \div 2}
\* p (line 9): the script's 6, the plain ellipse 2, and the invalid 0 and -2.
PSet == {-2, 0, 2, 6}
\* The number of samples (50000 in the script), both ends of the turn
\* included: steps of 1/2, 1/3, 1/4 and 1/8 turn.
NSet == {3, 4, 5, 9}

----------------------------------------------------------------------------
(* Integer helpers.                                                        *)

Abs(n) == IF n < 0 THEN -n ELSE n

Sgn(n) == IF n > 0 THEN 1 ELSE IF n < 0 THEN -1 ELSE 0

\* n / m rounded to the nearest integer (m > 0), halves away from zero.
RoundDiv(n, m) == Sgn(n) * ((2 * Abs(n) + m) \div (2 * m))

\* The integer nearest to the h-th root of n, searched in 0 .. hi.
NearestRoot(n, h, hi) ==
  CHOOSE r \in 0..hi :
    /\ (r = 0 \/ (2 * r - 1) ^ h <= (2 ^ h) * n)
    /\ (2 ^ h) * n < (2 * r + 1) ^ h

----------------------------------------------------------------------------
(* IEEE 754 values.                                                        *)

Fin(v) == [k |-> "fin", v |-> v]
NaN == [k |-> "nan", v |-> 0]
Inf(sg) == [k |-> "inf", v |-> sg]

IsFin(f) == f.k = "fin"
IsNaN(f) == f.k = "nan"

FMul(f, g) ==
  IF IsNaN(f) \/ IsNaN(g) THEN NaN
  ELSE IF IsFin(f) /\ IsFin(g) THEN Fin(RoundDiv(f.v * g.v, SCALE))
  ELSE IF Sgn(f.v) * Sgn(g.v) = 0 THEN NaN
  ELSE Inf(Sgn(f.v) * Sgn(g.v))

FAdd(f, g) ==
  IF IsNaN(f) \/ IsNaN(g) THEN NaN
  ELSE IF IsFin(f) /\ IsFin(g) THEN Fin(f.v + g.v)
  ELSE IF IsFin(f) THEN g
  ELSE IF IsFin(g) THEN f
  ELSE IF f.v = g.v THEN f ELSE NaN

\* The float f divided by the positive float g.
FDiv(f, g) ==
  IF IsFin(f) THEN Fin(RoundDiv(f.v * SCALE, g.v)) ELSE f

----------------------------------------------------------------------------
(* 64-bit integers (np.int is the platform's long).  INT_MIN stands for   *)
(* -2^63, the only value of the script's integer arrays outside the range  *)
(* TLC computes in: it is what the x86 cast of a NaN yields, and its       *)
(* square wraps to 0 modulo 2^64.                                          *)

INT_MIN == -(2 ^ 30)

\* n ** 2 on an int64 array (line 33), wrapping.
Sq(n) == IF n = INT_MIN THEN 0 ELSE n * n

\* The outcomes of casting a NaN or an infinity to int64, which C leaves
\* undefined: -2^63 (x86-64) or 0 (aarch64).
CastOutcomes == {INT_MIN, 0}

\* AsInt rounding down (np.floor) instead of toward zero.
FloorInt(f, cast) == IF IsFin(f) THEN f.v \div SCALE ELSE cast

\* ndarray.astype(np.int) of one element: truncation toward zero.
AsInt(f, cast) ==
  IF IsFin(f) THEN Sgn(f.v) * (Abs(f.v) \div SCALE) ELSE cast

\* The int64 n divided by the float f >= 0 (line 34: an int array / d).
\* 0 / 0 is NaN and n / 0 an infinity (numpy warns and goes on); -2^63 / f
\* is a huge finite value, kept as INT_MIN.
FDivInt(n, f) ==
  IF f.v = 0 THEN (IF n = 0 THEN NaN ELSE Inf(Sgn(n)))
  ELSE IF n = INT_MIN THEN Fin(INT_MIN)
  ELSE Fin(RoundDiv(n * SCALE * SCALE, f.v))

----------------------------------------------------------------------------
(* The sampler: lines 6-13.                                                *)

\* cos of k/24 turn, k = 0 .. 24, in hundredths; sin is cos a quarter turn
\* back.
CosPct == <<100, 97, 87, 71, 50, 26, 0, -26, -50, -71, -87, -97, -100,
            -97, -87, -71, -50, -26, 0, 26, 50, 71, 87, 97, 100>>
TurnSteps == Len(CosPct) - 1
SinPct == [k \in 1..Len(CosPct) |-> CosPct[((k - 1 + 3 * (TurnSteps \div 4)) % TurnSteps) + 1]]

\* n hundredths in fixed point.
Pct(n) == Sgn(n) * ((Abs(n) * SCALE) \div 100)

\* np.linspace(0, 2*np.pi, n): element i is the angle, in 1/24 turns.
Linspace(n) == [i \in 1..n |-> ((i - 1) * TurnSteps) \div (n - 1)]

NpCos(tt) == [i \in 1..Len(tt) |-> Pct(CosPct[tt[i] + 1])]
NpSin(tt) == [i \in 1..Len(tt) |-> Pct(SinPct[tt[i] + 1])]

\* NpSign without the sign: 1.0 for every element.
SignDropped(v) == Fin(SCALE)

\* np.sign of one element, as a float.
NpSign(v) == Fin(Sgn(v) * SCALE)

\* The exponent 2/p as the reduced fraction ExpNum / ExpDen, up to sign.
ExpNum(pp) == IF pp % 2 = 0 THEN 1 ELSE 2
ExpDen(pp) == IF pp % 2 = 0 THEN Abs(pp) \div 2 ELSE Abs(pp)

\* (v/SCALE) ^ (num/den) for 0 <= v <= SCALE, in fixed point.
PosPow(v, num, den) ==
  LET target == IF den >= num THEN (v ^ num) * (SCALE ^ (den - num))
                ELSE RoundDiv(v ^ num, SCALE ^ (num - den))
  IN NearestRoot(target, den, SCALE)

\* np.abs(c) ** (2/p) of one element, p # 0: 0 ** negative is +inf.
PowAbs(v, pp) ==
  LET r == PosPow(Abs(v), ExpNum(pp), ExpDen(pp))
  IN IF pp > 0 THEN Fin(r)
     ELSE IF r = 0 THEN Inf(1)
     ELSE Fin(RoundDiv(SCALE * SCALE, r))

\* np.abs(c)**(2/p) * np.sign(c) * a of one element (lines 12, 13).
SignedPow(v, pp, axis) == FMul(FMul(PowAbs(v, pp), NpSign(v)), Fin(axis))

SuperEllipse(cs, pp, axis) == [i \in 1..Len(cs) |-> SignedPow(cs[i], pp, axis)]

----------------------------------------------------------------------------
(* The heap of float arrays.                                               *)

\* CopyRef without the copy: idealx = x binds the same object.
AliasRef(h, r) == r

\* ndarray.copy(): a new object with the same elements.
CopyRef(h, r) == Len(h) + 1

Alloc(h, arr) == Append(h, arr)

\* x += v (lines 36, 37) is in place: the object r keeps its identity.
InPlaceAdd(h, r, delta) ==
  [h EXCEPT ![r] = [i \in 1..Len(h[r]) |-> FAdd(h[r][i], delta[i])]]

----------------------------------------------------------------------------
(* The noise field: lines 20-23.                                           *)

\* The fields the external generator may return: R rows of R values in
\* [-1, 1], no two neighbouring cells alike.
NoiseField(sd) ==
  [i \in 1..R |-> [j \in 1..R |->
     Fin(Pct((((3 * i + 5 * j + 7 * sd) % 21) - 10) * 10))]]

----------------------------------------------------------------------------
(* The displacement: lines 29-37.                                          *)

cx == 0
cy == 0

\* 0.05 (line 35).
Intensity == Fin(SCALE \div 20)

\* (x * (R-1) / b).astype(np.int) of one element (lines 31, 32).
MapIndex(f, bb, cast) ==
  AsInt(FDiv(FMul(f, Fin((R - 1) * SCALE)), Fin(bb)), cast)

\* |n| of an int64 whose square did not wrap.
Mag(n) == IF n = INT_MIN THEN 0 ELSE Abs(n)

\* np.sqrt((X-cx)**2 + (Y-cy)**2) of one element (line 33).
Dist(Xi, Yi) ==
  Fin(NearestRoot((Sq(Xi - cx) + Sq(Yi - cy)) * SCALE * SCALE, 2,
                  SCALE * (Mag(Xi - cx) + Mag(Yi - cy))))

\* Direction without the division by d.
RawDirection(Xi, Yi, di) ==
  <<Fin(IF Xi = INT_MIN THEN INT_MIN ELSE (Xi - cx) * SCALE),
    Fin(IF Yi = INT_MIN THEN INT_MIN ELSE (Yi - cy) * SCALE)>>

\* np.array([X-cx, Y-cy]) / d of one element (line 34).
Direction(Xi, Yi, di) == <<FDivInt(Xi - cx, di), FDivInt(Yi - cy, di)>>

\* numpy's index rule on an axis of length R: -R .. R-1 are valid and a
\* negative index counts from the end; anything else is an IndexError.
ValidIndex(n) == n \in (-R)..(R - 1)
WrapIndex(n) == IF n < 0 THEN n + R ELSE n

\* noise[X, Y] of one element (line 35).
Lookup(field, Xi, Yi) == field[WrapIndex(Xi) + 1][WrapIndex(Yi) + 1]

\* direction * noise[X, Y] * 0.05 of one element and one component.
Displace(dir, nz) == FMul(FMul(dir, nz), Intensity)

\* Lines 31-35 for one sample with coordinates xi, yi: both components
\* (NaN where the lookup would raise).
DisplacementOf(xi, yi) ==
  LET Xi == MapIndex(xi, b, nanCast)
      Yi == MapIndex(yi, b, nanCast)
      dir == Direction(Xi, Yi, Dist(Xi, Yi))
  IN IF ValidIndex(Xi) /\ ValidIndex(Yi)
     THEN <<Displace(dir[1], Lookup(noise, Xi, Yi)),
            Displace(dir[2], Lookup(noise, Xi, Yi))>>
     ELSE <<NaN, NaN>>

\* ElemDelta with the displacement evaluated when the element is updated,
\* from the coordinates as they are then.
StaleDelta(comp, i) == DisplacementOf(heap[x][i], heap[y][i])[comp]

\* What line 36 (comp = 1) and line 37 (comp = 2) add to element i.
ElemDelta(comp, i) == noise_component[comp][i]

\* The array a statement of lines 36, 37 updates.
Target(comp) == IF comp = 1 THEN x ELSE y

----------------------------------------------------------------------------
(* The script, statement by statement.                                     *)

Init ==
  /\ a \in ASet /\ b \in BSet /\ p \in PSet /\ N \in NSet
  /\ seed \in 0..MaxSeed /\ nanCast \in CastOutcomes
  /\ pc = "t" /\ err = "none"
  /\ t = <<>> /\ c = <<>> /\ s = <<>>
  /\ heap = <<>> /\ x = 0 /\ y = 0 /\ idealx = 0 /\ idealy = 0
  /\ noise = <<>>
  /\ X = <<>> /\ Y = <<>> /\ d = <<>>
  /\ direction = <<>> /\ noise_component = <<>>
  /\ todo = {}

Raise(e) == pc' = "error" /\ err' = e

\* line 6
StmtT ==
  /\ pc = "t"
  /\ t' = Linspace(N)
  /\ pc' = "c"
  /\ UNCHANGED <<params, err, c, s, heap, x, y, idealx, idealy, noise, X, Y,
                 d, direction, noise_component, todo>>

\* line 10
StmtC ==
  /\ pc = "c"
  /\ c' = NpCos(t)
  /\ pc' = "s"
  /\ UNCHANGED <<params, err, t, s, heap, x, y, idealx, idealy, noise, X, Y,
                 d, direction, noise_component, todo>>

\* line 11
StmtS ==
  /\ pc = "s"
  /\ s' = NpSin(t)
  /\ pc' = "x"
  /\ UNCHANGED <<params, err, t, c, heap, x, y, idealx, idealy, noise, X, Y,
                 d, direction, noise_component, todo>>

\* line 12: 2/p raises ZeroDivisionError when p = 0
StmtX ==
  /\ pc = "x"
  /\ IF p = 0
     THEN Raise("ZeroDivisionError") /\ UNCHANGED <<heap, x>>
     ELSE /\ heap' = Alloc(heap, SuperEllipse(c, p, a))
          /\ x' = Len(heap) + 1
          /\ pc' = "y"
          /\ err' = err
  /\ UNCHANGED <<params, t, c, s, y, idealx, idealy, noise, X, Y, d,
                 direction, noise_component, todo>>

\* line 13
StmtY ==
  /\ pc = "y"
  /\ heap' = Alloc(heap, SuperEllipse(s, p, b))
  /\ y' = Len(heap) + 1
  /\ pc' = "idealx"
  /\ UNCHANGED <<params, err, t, c, s, x, idealx, idealy, noise, X, Y, d,
                 direction, noise_component, todo>>

\* line 17
StmtIdealX ==
  /\ pc = "idealx"
  /\ heap' = Alloc(heap, heap[x])
  /\ idealx' = CopyRef(heap, x)
  /\ pc' = "idealy"
  /\ UNCHANGED <<params, err, t, c, s, x, y, idealy, noise, X, Y, d,
                 direction, noise_component, todo>>

\* line 18
StmtIdealY ==
  /\ pc = "idealy"
  /\ heap' = Alloc(heap, heap[y])
  /\ idealy' = CopyRef(heap, y)
  /\ pc' = "noise"
  /\ UNCHANGED <<params, err, t, c, s, x, y, idealx, noise, X, Y, d,
                 direction, noise_component, todo>>

\* lines 20-23
StmtNoise ==
  /\ pc = "noise"
  /\ noise' = NoiseField(seed)
  /\ pc' = "assert"
  /\ UNCHANGED <<params, err, t, c, s, heap, x, y, idealx, idealy, X, Y, d,
                 direction, noise_component, todo>>

\* line 26
StmtAssert ==
  /\ pc = "assert"
  /\ IF b >= a THEN pc' = "X" /\ err' = err ELSE Raise("AssertionError")
  /\ UNCHANGED <<params, t, c, s, heap, x, y, idealx, idealy, noise, X, Y,
                 d, direction, noise_component, todo>>

\* line 31
StmtMapX ==
  /\ pc = "X"
  /\ X' = [i \in 1..Len(heap[x]) |-> MapIndex(heap[x][i], b, nanCast)]
  /\ pc' = "Y"
  /\ UNCHANGED <<params, err, t, c, s, heap, x, y, idealx, idealy, noise, Y,
                 d, direction, noise_component, todo>>

\* line 32
StmtMapY ==
  /\ pc = "Y"
  /\ Y' = [i \in 1..Len(heap[y]) |-> MapIndex(heap[y][i], b, nanCast)]
  /\ pc' = "d"
  /\ UNCHANGED <<params, err, t, c, s, heap, x, y, idealx, idealy, noise, X,
                 d, direction, noise_component, todo>>

\* line 33
StmtD ==
  /\ pc = "d"
  /\ d' = [i \in 1..Len(X) |-> Dist(X[i], Y[i])]
  /\ pc' = "direction"
  /\ UNCHANGED <<params, err, t, c, s, heap, x, y, idealx, idealy, noise, X,
                 Y, direction, noise_component, todo>>

\* line 34
StmtDirection ==
  /\ pc = "direction"
  /\ direction' = <<[i \in 1..Len(X) |-> Direction(X[i], Y[i], d[i])[1]],
                    [i \in 1..Len(X) |-> Direction(X[i], Y[i], d[i])[2]]>>
  /\ pc' = "noise_component"
  /\ UNCHANGED <<params, err, t, c, s, heap, x, y, idealx, idealy, noise, X,
                 Y, d, noise_component, todo>>

\* line 35: noise[X, Y] raises IndexError on an index outside -R .. R-1
StmtNoiseComponent ==
  /\ pc = "noise_component"
  /\ IF \A i \in 1..Len(X) : ValidIndex(X[i]) /\ ValidIndex(Y[i])
     THEN /\ noise_component' =
               [comp \in 1..2 |-> [i \in 1..Len(X) |->
                  Displace(direction[comp][i], Lookup(noise, X[i], Y[i]))]]
          /\ pc' = "addx"
          /\ err' = err
     ELSE Raise("IndexError") /\ UNCHANGED noise_component
  /\ UNCHANGED <<params, t, c, s, heap, x, y, idealx, idealy, noise, X, Y,
                 d, direction, todo>>

\* line 36
StmtAddX ==
  /\ pc = "addx"
  /\ heap' = InPlaceAdd(heap, Target(1),
                        [i \in 1..Len(heap[x]) |-> ElemDelta(1, i)])
  /\ pc' = "addy"
  /\ UNCHANGED <<params, err, t, c, s, x, y, idealx, idealy, noise, X, Y, d,
                 direction, noise_component, todo>>

\* line 37
StmtAddY ==
  /\ pc = "addy"
  /\ heap' = InPlaceAdd(heap, Target(2),
                        [i \in 1..Len(heap[y]) |-> ElemDelta(2, i)])
  /\ pc' = "plot"
  /\ UNCHANGED <<params, err, t, c, s, x, y, idealx, idealy, noise, X, Y, d,
                 direction, noise_component, todo>>

\* lines 39-51: the renderer reads x, y, idealx, idealy
StmtPlot ==
  /\ pc = "plot"
  /\ pc' = "done"
  /\ UNCHANGED <<params, err, t, c, s, heap, x, y, idealx, idealy, noise, X,
                 Y, d, direction, noise_component, todo>>

Next ==
  \/ StmtT \/ StmtC \/ StmtS \/ StmtX \/ StmtY \/ StmtIdealX \/ StmtIdealY
  \/ StmtNoise \/ StmtAssert \/ StmtMapX \/ StmtMapY \/ StmtD
  \/ StmtDirection \/ StmtNoiseComponent \/ StmtAddX \/ StmtAddY \/ StmtPlot

Spec == Init /\ [][Next]_vars

----------------------------------------------------------------------------
(* Lines 36 and 37 element by element.  numpy's in-place add is a loop     *)
(* over the elements; here the 2N element updates of the two statements    *)
(* run in any order and interleaving, next to the two whole statements.    *)

BeginAdd ==
  /\ pc = "addx"
  /\ todo' = (1..2) \X (1..Len(heap[x]))
  /\ pc' = "adding"
  /\ UNCHANGED <<params, err, t, c, s, heap, x, y, idealx, idealy, noise, X,
                 Y, d, direction, noise_component>>

AddElem(comp, i) ==
  /\ pc = "adding"
  /\ <<comp, i>> \in todo
  /\ heap' = [heap EXCEPT ![Target(comp)][i] = FAdd(@, ElemDelta(comp, i))]
  /\ todo' = todo \ {<<comp, i>>}
  /\ UNCHANGED <<params, pc, err, t, c, s, x, y, idealx, idealy, noise, X, Y,
                 d, direction, noise_component>>

EndAdd ==
  /\ pc = "adding"
  /\ todo = {}
  /\ pc' = "plot"
  /\ UNCHANGED <<params, err, t, c, s, heap, x, y, idealx, idealy, noise, X,
                 Y, d, direction, noise_component, todo>>

\* 2N element updates have 2^(2N) stages: up to five samples are explored.
MaxAnyOrderN == 5

InitAnyOrder ==
  /\ Init
  /\ N <= MaxAnyOrderN

NextAnyOrder ==
  \/ Next
  \/ BeginAdd
  \/ \E comp \in 1..2, i \in 1..N : AddElem(comp, i)
  \/ EndAdd

SpecAnyOrder == InitAnyOrder /\ [][NextAnyOrder]_vars

----------------------------------------------------------------------------
(* Properties.                                                             *)

\* How far the run has come.
Mapped == X # <<>> /\ Y # <<>>
LookedUp == noise_component # <<>>
Displaced == pc \in {"plot", "done"}

InField(n) == n \in 0..(R - 1)

\* (cos t, sin t) of sample i is one of (1,0), (0,1), (-1,0), (0,-1).
AxisAligned(i) ==
  <<c[i], s[i]>> \in {<<SCALE, 0>>, <<0, SCALE>>, <<-SCALE, 0>>, <<0, -SCALE>>}

\* The largest |noise value| of the field, and k times it.
MaxAbsNoise ==
  LET vals == {Abs(noise[i][j].v) : i \in 1..R, j \in 1..R}
  IN CHOOSE m \in vals : \A w \in vals : w <= m
DispBound == FMul(Intensity, Fin(MaxAbsNoise)).v

\* C1: whenever b < a (p being valid), none of x, y, the ideal copy and the
\* noise field is ever created: the failure comes before all of them.
C1_FailsBeforeAnyArray ==
  (b < a /\ p > 0) =>
    (x = 0 /\ y = 0 /\ idealx = 0 /\ idealy = 0 /\ noise = <<>>)

\* C2: whenever p <= 0, the curve arrays x, y are never produced and the
\* displacement and render steps are never reached.
C2_NonPositiveExponentRejected ==
  p <= 0 => (x = 0 /\ y = 0 /\ ~LookedUp /\ pc # "done")

\* C3: with valid parameters, every pair of indices used to read the noise
\* field lies in [0, R-1] x [0, R-1].
C3_LookupIndicesInField ==
  (p > 0 /\ LookedUp) =>
    \A i \in 1..N : InField(X[i]) /\ InField(Y[i])

\* C4: with valid parameters, a sample that maps onto the center keeps its
\* ideal coordinates once the displacement is applied, and no NaN is stored
\* in the working curve.
C4_DegenerateSampleUnmoved ==
  (p > 0 /\ Displaced) =>
    \A i \in 1..N :
      (X[i] = cx /\ Y[i] = cy) =>
        /\ heap[x][i] = heap[idealx][i]
        /\ heap[y][i] = heap[idealy][i]

\* C5: with valid parameters, if some mapped index lies outside [0, R-1] the
\* lookup does not succeed: no displacement is computed or applied, and the
\* run does not complete.
C5_OutOfFieldIndexAborts ==
  (p > 0 /\ Mapped /\ \E i \in 1..N : ~InField(X[i]) \/ ~InField(Y[i])) =>
    (~LookedUp /\ pc \notin {"addx", "adding", "addy", "plot", "done"})

\* C6: from the copy on, idealx and idealy hold the sampler's output element
\* for element, and ideal and working both have N elements.
C6_IdealNeverMutated ==
  /\ idealx # 0 =>
       /\ heap[idealx] = SuperEllipse(NpCos(Linspace(N)), p, a)
       /\ Len(heap[idealx]) = N /\ Len(heap[x]) = N
  /\ idealy # 0 =>
       /\ heap[idealy] = SuperEllipse(NpSin(Linspace(N)), p, b)
       /\ Len(heap[idealy]) = N /\ Len(heap[y]) = N

\* The displacement has moved the working curve and ideal exists beside it.
C6_Witness ==
  /\ pc = "done" /\ p > 0
  /\ \E i \in 1..N : heap[x][i] # heap[idealx][i]
  /\ \E i \in 1..N : heap[y][i] # heap[idealy][i]

\* C7: for every sample with d_i # 0, each component of the displacement is
\* finite and at most k * max|noise| in absolute value, and once it is
\* applied to a finite coordinate, working differs from ideal by at most
\* k * max|noise|.
C7_DisplacementBounded ==
  LookedUp =>
    \A i \in 1..N : \A comp \in 1..2 :
      d[i].v # 0 =>
        /\ IsFin(noise_component[comp][i])
        /\ Abs(noise_component[comp][i].v) <= DispBound
        /\ LET w == heap[Target(comp)][i]
               id == heap[IF comp = 1 THEN idealx ELSE idealy][i]
           IN IsFin(id) => (IsFin(w) /\ Abs(w.v - id.v) <= DispBound)

\* A non-degenerate sample has been moved in x and in y.
C7_Witness ==
  /\ pc = "done" /\ p > 0
  /\ \E i \in 1..N :
       /\ d[i].v # 0
       /\ heap[x][i].v # heap[idealx][i].v
       /\ heap[y][i].v # heap[idealy][i].v

\* C8: for valid a, b and p > 0, an axis-aligned sample is exactly (a,0),
\* (0,b), (-a,0) or (0,-b): in x, y as sampled, and in the ideal copy.
C8_AxisPointsExact ==
  (p > 0 /\ b >= a /\ s # <<>>) =>
    \A i \in 1..N :
      AxisAligned(i) =>
        /\ (x # 0 /\ pc # "addy" /\ ~Displaced /\ (pc = "adding" => <<1, i>> \in todo))
              => heap[x][i] = Fin((c[i] \div SCALE) * a)
        /\ (y # 0 /\ ~Displaced /\ (pc = "adding" => <<2, i>> \in todo))
              => heap[y][i] = Fin((s[i] \div SCALE) * b)
        /\ idealx # 0 => heap[idealx][i] = Fin((c[i] \div SCALE) * a)
        /\ idealy # 0 => heap[idealy][i] = Fin((s[i] \div SCALE) * b)

\* The sample (-1, 0) and the sample (0, -1) have been computed for p = 6.
C8_Witness ==
  /\ p = 6 /\ b >= a /\ pc = "idealx"
  /\ \E i \in 1..N : c[i] = -SCALE /\ s[i] = 0 /\ heap[x][i] = Fin(-a)
                     /\ heap[y][i] = Fin(0)
  /\ \E i \in 1..N : c[i] = 0 /\ s[i] = -SCALE /\ heap[y][i] = Fin(-b)
                     /\ heap[x][i] = Fin(0)

\* The quotient x_i * (R-1) / b the index of coordinate f is cast from.
Quotient(f) == FDiv(FMul(f, Fin((R - 1) * SCALE)), Fin(b)).v

\* C9: once b >= a has been asserted, for every sample with |x_i| <= a and
\* |y_i| <= b the indices lie in [-(R-1), R-1], are the quotient rounded
\* toward zero (never away from it, by less than 1, with its sign), and the
\* mapping is odd.
C9_MapTowardZeroInRange ==
  Mapped =>
    \A i \in 1..N :
      LET xi == heap[idealx][i]
          yi == heap[idealy][i]
      IN (IsFin(xi) /\ IsFin(yi) /\ Abs(xi.v) <= a /\ Abs(yi.v) <= b) =>
           /\ X[i] \in (-(R - 1))..(R - 1)
           /\ Y[i] \in (-(R - 1))..(R - 1)
           /\ X[i] * Sgn(xi.v) >= 0 /\ Y[i] * Sgn(yi.v) >= 0
           /\ Abs(X[i]) * SCALE <= Abs(Quotient(xi))
           /\ Abs(Quotient(xi)) < (Abs(X[i]) + 1) * SCALE
           /\ Abs(Y[i]) * SCALE <= Abs(Quotient(yi))
           /\ Abs(Quotient(yi)) < (Abs(Y[i]) + 1) * SCALE
           /\ \A j \in 1..N :
                /\ heap[idealx][j] = Fin(-xi.v) => X[j] = -X[i]
                /\ heap[idealy][j] = Fin(-yi.v) => Y[j] = -Y[i]

\* A negative coordinate whose quotient is no integer has been mapped, and
\* so has its mirror image.
C9_Witness ==
  /\ Mapped /\ p > 0
  /\ \E i, j \in 1..N :
       /\ heap[idealx][i].v < 0
       /\ Quotient(heap[idealx][i]) % SCALE # 0
       /\ X[i] < 0
       /\ heap[idealx][j] = Fin(-heap[idealx][i].v)
       /\ X[j] = -X[i]

\* Whether the update of component comp of element i has happened.
Updated(comp, i) ==
  IF pc = "adding" THEN <<comp, i>> \notin todo
  ELSE IF pc = "addy" THEN comp = 1
  ELSE Displaced

\* C10: in every order and interleaving of the element updates, an element
\* not yet updated holds its ideal coordinate and an updated one holds the
\* ideal coordinate plus the displacement computed from the sample's own
\* ideal coordinates; so every order ends in the same working curve as the
\* two whole-array statements.
C10_OrderIndependent ==
  (LookedUp /\ pc # "error") =>
    \A i \in 1..N : \A comp \in 1..2 :
      LET id == heap[IF comp = 1 THEN idealx ELSE idealy][i]
          own == DisplacementOf(heap[idealx][i], heap[idealy][i])[comp]
      IN heap[Target(comp)][i] =
           IF Updated(comp, i) THEN FAdd(id, own) ELSE id

\* Some sample has been moved in y before x, out of sequence with another
\* sample that has been moved in x.
C10_Witness ==
  /\ pc = "adding"
  /\ \E i, j \in 1..N :
       /\ i < j
       /\ <<1, i>> \in todo /\ <<2, i>> \notin todo
       /\ heap[y][i] # heap[idealy][i]
       /\ <<1, j>> \notin todo /\ <<2, j>> \in todo
       /\ heap[x][j] # heap[idealx][j]

====
